---- MODULE Spec2Model ----
(***************************************************************************)
(* The Bitbucket stale-branch client of src/main.go: the methods of        *)
(* BitbucketClient (FetchRepositories, FetchBranches, CheckIfStale,        *)
(* DeleteBranch, ListStaleBranches) as a state machine.  One behaviour is  *)
(* one call of an exported method by a caller; the hosting API is the      *)
(* environment and answers every request with any response.                *)
(*                                                                         *)
(* Records returned by the API carry the fields the code reads with a type *)
(* assertion (slug, name, target.date as strings): a record without them   *)
(* is outside the data model of the specification and is not enumerated.   *)
(* The text of target.date is arbitrary and may fail to parse.             *)
(***************************************************************************)
EXTENDS Integers, Sequences, FiniteSets, TLC

(***************************************************************************)
(* Numbers.  time.Duration is an int64 count of nanoseconds and            *)
(* Duration.Hours() a float64: both exceed the 32-bit integers of TLC, so a *)
(* natural number of any size is a sequence of limbs in base 2^15, most    *)
(* significant first, without a leading zero limb; <<>> is 0.              *)
(***************************************************************************)
LimbBits == 15

Base == 32768

Max(x, y) == IF x > y THEN x ELSE y

RECURSIVE Pow2(_)
Pow2(k) == IF k = 0 THEN 1 ELSE 2 * Pow2(k - 1)

RECURSIVE BitLen(_)
BitLen(x) == IF x = 0 THEN 0 ELSE 1 + BitLen(x \div 2)

RECURSIVE Strip(_)
Strip(a) == IF a = <<>> THEN <<>> ELSE IF Head(a) = 0 THEN Strip(Tail(a)) ELSE a

RECURSIVE FromInt(_)
FromInt(x) == IF x = 0 THEN <<>> ELSE Append(FromInt(x \div Base), x % Base)

RECURSIVE ToInt(_)
ToInt(a) == IF a = <<>> THEN 0 ELSE Base * ToInt(SubSeq(a, 1, Len(a) - 1)) + a[Len(a)]

BigLen(a) == IF a = <<>> THEN 0 ELSE LimbBits * (Len(a) - 1) + BitLen(a[1])

Zeros(k) == [x \in 1..k |-> 0]

Pad(a, n) == Zeros(n - Len(a)) \o a

RECURSIVE CmpAt(_, _, _)
CmpAt(a, b, k) ==
  IF k > Len(a) THEN 0
  ELSE IF a[k] # b[k] THEN (IF a[k] > b[k] THEN 1 ELSE -1)
  ELSE CmpAt(a, b, k + 1)

\* -1, 0 or 1 as a < b, a = b, a > b
BigCmp(a, b) ==
  IF Len(a) # Len(b) THEN (IF Len(a) > Len(b) THEN 1 ELSE -1) ELSE CmpAt(a, b, 1)

\* a * c + carry over the limbs 1..k of a, for a small c
RECURSIVE MulAt(_, _, _, _)
MulAt(a, c, k, carry) ==
  IF k = 0 THEN FromInt(carry)
  ELSE LET v == a[k] * c + carry
       IN Append(MulAt(a, c, k - 1, v \div Base), v % Base)

MulSmall(a, c) == Strip(MulAt(a, c, Len(a), 0))

\* a + b over the limbs 1..k of two sequences of equal length
RECURSIVE AddAt(_, _, _, _)
AddAt(a, b, k, carry) ==
  IF k = 0 THEN FromInt(carry)
  ELSE LET v == a[k] + b[k] + carry
       IN Append(AddAt(a, b, k - 1, v \div Base), v % Base)

BigAdd(a, b) ==
  LET n == Max(Len(a), Len(b)) IN Strip(AddAt(Pad(a, n), Pad(b, n), n, 0))

\* a * 2^k
ShiftLeft(a, k) ==
  IF a = <<>> THEN <<>>
  ELSE MulSmall(a, Pow2(k % LimbBits)) \o Zeros(k \div LimbBits)

\* quotient and remainder of the limbs 1..k of a by a small c, from the top
RECURSIVE DivAt(_, _, _)
DivAt(a, c, k) ==
  IF k = 0 THEN [q |-> <<>>, r |-> 0]
  ELSE LET t == DivAt(a, c, k - 1)
           v == t.r * Base + a[k]
       IN [q |-> Append(t.q, v \div c), r |-> v % c]

DivSmall(a, c) == LET t == DivAt(a, c, Len(a)) IN [q |-> Strip(t.q), r |-> t.r]

\* floor(a / 2^k), and whether a nonzero bit was shifted out
ShiftRight(a, k) ==
  IF k >= BigLen(a) THEN [q |-> <<>>, sticky |-> a # <<>>]
  ELSE LET w == k \div LimbBits
           t == DivSmall(SubSeq(a, 1, Len(a) - w), Pow2(k % LimbBits))
       IN [q |-> t.q,
           sticky |-> t.r # 0 \/ \E x \in (Len(a) - w + 1)..Len(a) : a[x] # 0]

\* floor(a / (ds[1] * ... * ds[k])) by successive small divisions, and whether
\* a remainder was left
RECURSIVE DivAll(_, _, _)
DivAll(a, ds, k) ==
  IF k = 0 THEN [q |-> a, sticky |-> FALSE]
  ELSE LET t == DivAll(a, ds, k - 1)
           u == DivSmall(t.q, ds[k])
       IN [q |-> u.q, sticky |-> t.sticky \/ u.r # 0]

RECURSIVE SumBitLen(_, _)
SumBitLen(ds, k) == IF k = 0 THEN 0 ELSE BitLen(ds[k]) + SumBitLen(ds, k - 1)

(***************************************************************************)
(* float64 (IEEE-754 binary64), as far as the code uses it: a value is     *)
(* [neg, m, e], (-1)^neg * m * 2^e with m a MantBits-bit number, or        *)
(* m = <<>> for zero.  The exponents the code can produce are far inside   *)
(* the format's range.                                                     *)
(***************************************************************************)
MantBits == 53

\* m * 2^e with m of MantBits or MantBits + 1 bits (the latter a power of two)
Normal(m, e) ==
  IF BigLen(m) > MantBits THEN [m |-> DivSmall(m, 2).q, e |-> e + 1]
  ELSE [m |-> m, e |-> e]

\* hf.q is the leading MantBits bits, hf.r the bit after them, sticky whether
\* anything nonzero follows: to nearest, ties to even
RoundHalf(hf, sticky, e) ==
  Normal(IF hf.r = 1 /\ (sticky \/ hf.q[Len(hf.q)] % 2 = 1)
         THEN BigAdd(hf.q, <<1>>) ELSE hf.q, e)

RoundShifted(sh, sticky, e) == RoundHalf(DivSmall(sh.q, 2), sticky \/ sh.sticky, e)

\* (q + a fraction, nonzero iff sticky) * 2^e, q of more than MantBits bits
Round(q, sticky, e) ==
  RoundShifted(ShiftRight(q, BigLen(q) - (MantBits + 1)), sticky,
               e + BigLen(q) - MantBits)

FlQuotient(dv, e) == Round(dv.q, dv.sticky, e)

FlScaled(n, ds, e, k) == FlQuotient(DivAll(ShiftLeft(n, k), ds, Len(ds)), e - k)

\* n / (ds[1] * ... * ds[k]) * 2^e rounded to the nearest float64, ties to even
Fl(n, ds, e) ==
  IF n = <<>> THEN [m |-> <<>>, e |-> 0]
  ELSE FlScaled(n, ds, e, Max(0, MantBits + 2 + SumBitLen(ds, Len(ds)) - BigLen(n)))

Signed(neg, f) == [neg |-> neg /\ f.m # <<>>, m |-> f.m, e |-> f.e]

FlSign(a) == IF a.m = <<>> THEN 0 ELSE IF a.neg THEN -1 ELSE 1

FlMagCmp(a, b) == IF a.e # b.e THEN (IF a.e > b.e THEN 1 ELSE -1) ELSE BigCmp(a.m, b.m)

\* a > b on float64
FlGt(a, b) ==
  IF FlSign(a) # FlSign(b) THEN FlSign(a) > FlSign(b)
  ELSE FlSign(a) # 0 /\ FlMagCmp(a, b) = FlSign(a)

\* x / 24 on float64
FlDiv24(a) == Signed(a.neg, Fl(a.m, <<24>>, a.e))

\* int64(x): the integer part, toward zero (the values here are far below 2^31)
FlTrunc(a) ==
  FlSign(a) * ToInt(IF a.e >= 0 THEN ShiftLeft(a.m, a.e)
                    ELSE ShiftRight(a.m, 0 - a.e).q)

FormatHalf(hf, sticky) ==
  IF hf.r = 1 /\ (sticky \/ (hf.q # <<>> /\ hf.q[Len(hf.q)] % 2 = 1))
  THEN ToInt(hf.q) + 1 ELSE ToInt(hf.q)

FormatShifted(sh) == FormatHalf(DivSmall(sh.q, 2), sh.sticky)

\* the integer "%.0f" prints for x >= 0: the nearest one, an exact tie to even
FlFormat0(a) ==
  IF a.e >= 0 THEN ToInt(ShiftLeft(a.m, a.e))
  ELSE FormatShifted(ShiftRight(a.m, 0 - a.e - 1))

(***************************************************************************)
(* time.Duration and time.Time.  A Duration is [neg, h, s, n]: a sign and  *)
(* the magnitude h hours + s seconds + n nanoseconds (s < 3600, n < 10^9). *)
(* A Time is [h, s, n]: the instant h hours + s seconds + n nanoseconds    *)
(* after 2024-01-01T00:00:00Z, h of either sign.                           *)
(***************************************************************************)
NanosPerSecond == 1000000000

SecondsPerHour == 3600

Dur(neg, h, s, n) == [neg |-> neg /\ (h # 0 \/ s # 0 \/ n # 0), h |-> h, s |-> s, n |-> n]

ZeroDuration == Dur(FALSE, 0, 0, 0)

\* 1<<63 - 1 and 1<<63 nanoseconds
MaxDuration == Dur(FALSE, 2562047, 2836, 854775807)

MinDuration == Dur(TRUE, 2562047, 2836, 854775808)

\* -1, 0 or 1 as |a| < |b|, |a| = |b|, |a| > |b|
MagCmp(a, b) ==
  IF a.h # b.h THEN (IF a.h > b.h THEN 1 ELSE -1)
  ELSE IF a.s # b.s THEN (IF a.s > b.s THEN 1 ELSE -1)
  ELSE IF a.n # b.n THEN (IF a.n > b.n THEN 1 ELSE -1)
  ELSE 0

\* t - u as an exact difference, of any size
TimeDiff(t, u) ==
  LET dn == t.n - u.n
      bn == IF dn < 0 THEN 1 ELSE 0
      ds == t.s - u.s - bn
      bs == IF ds < 0 THEN 1 ELSE 0
      n1 == dn + bn * NanosPerSecond
      s1 == ds + bs * SecondsPerHour
      h1 == t.h - u.h - bs
  IN IF h1 >= 0 THEN Dur(FALSE, h1, s1, n1)
     ELSE IF s1 = 0 /\ n1 = 0 THEN Dur(TRUE, 0 - h1, 0, 0)
     ELSE IF n1 = 0 THEN Dur(TRUE, 0 - h1 - 1, SecondsPerHour - s1, 0)
     ELSE Dur(TRUE, 0 - h1 - 1, SecondsPerHour - 1 - s1, NanosPerSecond - n1)

\* Time.Sub: the difference, or the nearest Duration when it does not fit int64
TimeSub(t, u) ==
  LET d == TimeDiff(t, u)
  IN IF ~d.neg /\ MagCmp(d, MaxDuration) = 1 THEN MaxDuration
     ELSE IF d.neg /\ MagCmp(d, MinDuration) = 1 THEN MinDuration
     ELSE d

\* float64(hour) + q, for the float64 q = float64(nsec)/(60*60*1e9) < 1
HoursSum(hour, q) ==
  IF q.m = <<>> THEN Fl(FromInt(hour), <<>>, 0)
  ELSE IF hour = 0 THEN q
  ELSE Fl(BigAdd(ShiftLeft(FromInt(hour), 0 - q.e), q.m), <<>>, q.e)

\* Duration.Hours(): hour := d / Hour; nsec := d % Hour;
\* float64(hour) + float64(nsec)/(60*60*1e9), with 3.6e12 = 2^13 * 9 * 5^5 * 5^6
DurationHours(d) ==
  Signed(d.neg,
         HoursSum(d.h, Fl(BigAdd(MulSmall(MulSmall(FromInt(d.s), 31250), 32000),
                                 FromInt(d.n)),
                          <<9, 3125, 15625>>, -13)))

\* time.Duration(x) * time.Hour for an integer x
HoursDuration(x) == IF x < 0 THEN Dur(TRUE, 0 - x, 0, 0) ELSE Dur(FALSE, x, 0, 0)

(***************************************************************************)
(* time.Parse(time.RFC3339, s) on the texts the API is given to return:    *)
(* the instant a well-formed text denotes, or an error.                    *)
(***************************************************************************)
WellFormedDates ==
  { "2024-01-01T00:00:00Z", "2024-04-19T12:30:00+07:00", "2024-07-18T00:00:00Z",
    "0001-01-01T00:00:00Z" }

DateStrings == WellFormedDates \cup { "2024-01-01 00:00:00", "" }

ParseRFC3339(str) ==
  CASE str = "2024-01-01T00:00:00Z"      -> [err |-> FALSE, t |-> [h |-> 0, s |-> 0, n |-> 0]]
    [] str = "2024-04-19T12:30:00+07:00" -> [err |-> FALSE, t |-> [h |-> 2621, s |-> 1800, n |-> 0]]
    [] str = "2024-07-18T00:00:00Z"      -> [err |-> FALSE, t |-> [h |-> 4776, s |-> 0, n |-> 0]]
    [] str = "0001-01-01T00:00:00Z"      -> [err |-> FALSE, t |-> [h |-> -17733240, s |-> 0, n |-> 0]]
    [] OTHER                             -> [err |-> TRUE, t |-> [h |-> -17733240, s |-> 0, n |-> 0]]

(***************************************************************************)
(* The pure parts of the client.                                           *)
(***************************************************************************)
Branch(name, date) == [name |-> name, target |-> [date |-> date]]

\* time.Since(commitDate).Hours() / 24 with the clock at now
DaysSince(now, commitDate) == FlDiv24(DurationHours(TimeSub(now, commitDate)))

\* the comparison with threshold.Hours()/24 and the two returns after it
StaleOrNot(daysSinceCommit, threshold) ==
  IF FlGt(daysSinceCommit, FlDiv24(DurationHours(threshold)))
  THEN [isStale |-> TRUE, age |-> HoursDuration(FlTrunc(daysSinceCommit))]
  ELSE [isStale |-> FALSE, age |-> ZeroDuration]

\* time.Time{}, which time.Parse returns with an error
ZeroTime == [h |-> -17733240, s |-> 0, n |-> 0]

CheckIfStale_ignoreParseError(branch, threshold, now) ==
  StaleOrNot(DaysSince(now, ParseRFC3339(branch.target.date).t), threshold)

\* CheckIfStale, with the clock reading of time.Since as the argument now
CheckIfStale(branch, threshold, now) ==
  IF ParseRFC3339(branch.target.date).err THEN [isStale |-> FALSE, age |-> ZeroDuration]
  ELSE StaleOrNot(DaysSince(now, ParseRFC3339(branch.target.date).t), threshold)

\* the number "%.0f" prints for nonInteractDays.Hours()/24
PrintedDays(nonInteractDays) == FlFormat0(FlDiv24(DurationHours(nonInteractDays)))

protectedBranches == <<"main", "master", "develop">>

IsProtected_foldCase(branchName) ==
  \E k \in 1..Len(protectedBranches) :
    \/ branchName = protectedBranches[k]
    \/ branchName \in {"Main", "MASTER"} /\ k <= 2

IsProtected_short(branchName) ==
  \E k \in 1..(Len(protectedBranches) - 1) : branchName = protectedBranches[k]

\* the loop over protectedBranches at the head of DeleteBranch
IsProtected(branchName) ==
  \E k \in 1..Len(protectedBranches) : branchName = protectedBranches[k]

(***************************************************************************)
(* The hosting API: requests and the responses it may give.  A response is *)
(* a transport failure (the request's err is not nil) or a status with,    *)
(* for a GET answered 200, the decoded JSON array.                         *)
(***************************************************************************)
MaxRepos == 2

MaxBranches == 2

Workspace == "ws"

Slugs == {"repo-a", "repo-b", "repo-c"}

ListedNames == {"master", "feature-x", "old-stuff"}

ListedDates == {"2024-01-01T00:00:00Z", "2024-07-18T00:00:00Z", "2024-01-01 00:00:00"}

\* the sequences over S of length at most n without a repeated element
RECURSIVE SeqsUpTo(_, _)
SeqsUpTo(S, n) ==
  IF n = 0 THEN {<<>>}
  ELSE LET shorter == SeqsUpTo(S, n - 1)
       IN shorter \cup {Append(q, x) : q \in shorter, x \in S}

\* no value occurs twice in the sequence keys
Distinct(keys) == \A a, b \in 1..Len(keys) : a # b => keys[a] # keys[b]

SlugsOf(q) == [k \in 1..Len(q) |-> q[k].slug]

NamesOf(q) == [k \in 1..Len(q) |-> q[k].name]

RepoLists ==
  {q \in SeqsUpTo({[slug |-> x] : x \in Slugs}, MaxRepos) : Distinct(SlugsOf(q))}

ListedBranches == {Branch(x, d) : x \in ListedNames, d \in ListedDates}

BranchLists == {q \in SeqsUpTo(ListedBranches, MaxBranches) : Distinct(NamesOf(q))}

TransportFailure == [err |-> TRUE, status |-> 0, body |-> <<>>]

Answer(status, body) == [err |-> FALSE, status |-> status, body |-> body]

NoResponse == Answer(0, <<>>)

RepoResponses ==
  {TransportFailure, Answer(401, <<>>), Answer(204, <<>>)}
    \cup {Answer(200, q) : q \in RepoLists}

BranchResponses ==
  {TransportFailure, Answer(404, <<>>), Answer(204, <<>>)}
    \cup {Answer(200, q) : q \in BranchLists}

DeleteResponses ==
  {TransportFailure, Answer(204, <<>>), Answer(200, <<>>), Answer(404, <<>>)}

Request(method, url) == [method |-> method, url |-> url]

ReposURL == <<"repositories", Workspace>>

BranchesURL(slug) == <<"repositories", Workspace, slug, "refs", "branches">>

BranchURL(slug, name) == <<"repositories", Workspace, slug, "refs", "branches", name>>

NilError == [kind |-> "nil", status |-> 0]

TransportError == [kind |-> "transport", status |-> 0]

StatusError(status) == [kind |-> "status", status |-> status]

\* FetchRepositories, given the response to its GET
FetchRepositories_anyStatus(r) ==
  IF r.err THEN [repos |-> <<>>, err |-> TransportError]
  ELSE [repos |-> r.body, err |-> NilError]

FetchRepositories(r) ==
  IF r.err THEN [repos |-> <<>>, err |-> TransportError]
  ELSE IF r.status # 200 THEN [repos |-> <<>>, err |-> StatusError(r.status)]
  ELSE [repos |-> r.body, err |-> NilError]

\* FetchBranches, given the response to its GET
FetchBranches(r) ==
  IF r.err THEN [branches |-> <<>>, err |-> TransportError]
  ELSE IF r.status # 200 THEN [branches |-> <<>>, err |-> StatusError(r.status)]
  ELSE [branches |-> r.body, err |-> NilError]

\* the error DeleteBranch returns, given the response to its DELETE
DeleteOutcome_any2xx(r) ==
  IF r.err THEN TransportError
  ELSE IF r.status < 200 \/ r.status > 299 THEN StatusError(r.status)
  ELSE NilError

DeleteOutcome(r) ==
  IF r.err THEN TransportError
  ELSE IF r.status # 204 THEN StatusError(r.status)
  ELSE NilError

(***************************************************************************)
(* The arguments callers pass and the clock readings time.Since may see.   *)
(***************************************************************************)
Hrs(h) == Dur(FALSE, h, 0, 0)

\* 3 * 30 * 24 * time.Hour, the threshold main passes
MainThreshold == Hrs(3 * 30 * 24)

Thresholds == {MainThreshold, Hrs(4096), Hrs(8192), ZeroDuration}

At(h, s, n) == [h |-> h, s |-> s, n |-> n]

Clock ==
  { At(-24, 0, 0), At(0, 0, 0), At(0, 0, 1),
    At(2159, 3599, 999999999), At(2160, 0, 0), At(2160, 0, 1),
    At(4096, 0, 0), At(4096, 0, 1), At(4096, 0, 2),
    At(4776, 0, 0), At(4800, 0, 0), At(4812, 0, 0) }

RunThresholds == {MainThreshold}

RunClock == {At(4800, 0, 0)}

DeleteNames ==
  {"main", "master", "develop", "Main", "MASTER", "main2", "mast", "", "feature-x"}

NoBranch == Branch("", "")

\* what the loop over branches gets for a listed branch, by the one field
\* CheckIfStale reads of it: the two results of CheckIfStale and the days as
\* "%.0f" prints them
StaleReports ==
  {[date      |-> d,
    threshold |-> th,
    now       |-> t,
    isStale   |-> CheckIfStale(Branch("", d), th, t).isStale,
    age       |-> CheckIfStale(Branch("", d), th, t).age,
    days      |-> PrintedDays(CheckIfStale(Branch("", d), th, t).age)] :
     d \in ListedDates, th \in RunThresholds, t \in RunClock}

(***************************************************************************)
(* The state: the position of the call in progress (pc), the arguments and *)
(* locals of the method running, the last response received, the lines the *)
(* last step printed (out), every request sent so far (requests) and the   *)
(* repositories whose branch list could not be fetched (skipped).          *)
(* reports holds StaleReports, worked out once and never changed.          *)
(***************************************************************************)
VARIABLES pc, threshold, delete, repos, i, repoSlug, branches, j, branch, now,
          isStale, nonInteractDays, branchName, resp, err, out, requests, skipped,
          reports

vars == <<pc, threshold, delete, repos, i, repoSlug, branches, j, branch, now,
          isStale, nonInteractDays, branchName, resp, err, out, requests, skipped,
          reports>>

\* NewBitbucketClient: a client, and no call yet
Init ==
  /\ pc = "idle"
  /\ threshold = ZeroDuration
  /\ delete = FALSE
  /\ repos = <<>>
  /\ i = 0
  /\ repoSlug = ""
  /\ branches = <<>>
  /\ j = 0
  /\ branch = NoBranch
  /\ now = At(0, 0, 0)
  /\ isStale = FALSE
  /\ nonInteractDays = ZeroDuration
  /\ branchName = ""
  /\ resp = NoResponse
  /\ err = NilError
  /\ out = <<>>
  /\ requests = <<>>
  /\ skipped = <<>>
  /\ reports = StaleReports

\* ---- ListStaleBranches ----

\* the call, up to the GET of FetchRepositories
ListStaleBranches(th, del) ==
  /\ pc = "idle"
  /\ pc' = "FetchingRepos"
  /\ threshold' = th
  /\ delete' = del
  /\ requests' = Append(requests, Request("GET", ReposURL))
  /\ UNCHANGED reports
  /\ UNCHANGED <<repos, i, repoSlug, branches, j, branch, now, isStale,
                 nonInteractDays, branchName, resp, err, out, skipped>>

\* FetchRepositories returns: the error is printed and the method returns, or
\* the loop over repos starts
ReposResponse(r) ==
  /\ pc = "FetchingRepos"
  /\ resp' = r
  /\ LET f == FetchRepositories(r)
     IN /\ err' = f.err
        /\ IF f.err # NilError
           THEN /\ out' = << <<"Error fetching repositories", f.err.kind>> >>
                /\ pc' = "Failed"
                /\ UNCHANGED <<repos, i>>
           ELSE /\ out' = <<>>
                /\ repos' = f.repos
                /\ i' = 1
                /\ pc' = "PerRepo"
  /\ UNCHANGED reports
  /\ UNCHANGED <<threshold, delete, repoSlug, branches, j, branch, now, isStale,
                 nonInteractDays, branchName, requests, skipped>>

\* the head of the loop over repos: the next repository's GET, or the end
NextRepo ==
  /\ pc = "PerRepo"
  /\ IF i > Len(repos)
     THEN /\ pc' = "Done"
          /\ out' = <<>>
          /\ UNCHANGED <<repoSlug, branches, j, resp, err, requests>>
     ELSE /\ repoSlug' = repos[i].slug
          /\ out' = << <<"Checking branches for repository", repos[i].slug>> >>
          /\ requests' = Append(requests, Request("GET", BranchesURL(repos[i].slug)))
          /\ branches' = <<>>
          /\ j' = 0
          /\ resp' = NoResponse
          /\ err' = NilError
          /\ pc' = "FetchingBranches"
  /\ UNCHANGED reports
  /\ UNCHANGED <<threshold, delete, repos, i, branch, now, isStale,
                 nonInteractDays, branchName, skipped>>

\* what a failed FetchBranches leads to: continue
AfterBranchesError_return == [pc |-> "Done", step |-> 0]

AfterBranchesError_retry == [pc |-> "PerRepo", step |-> 0]

AfterBranchesError == [pc |-> "PerRepo", step |-> 1]

\* FetchBranches returns: the error is printed and the loop continues with the
\* next repository, or the loop over branches starts
BranchesResponse(r) ==
  /\ pc = "FetchingBranches"
  /\ resp' = r
  /\ LET f == FetchBranches(r)
     IN /\ err' = f.err
        /\ IF f.err # NilError
           THEN /\ out' = << <<"Error fetching branches for repo", repoSlug, f.err.kind>> >>
                /\ skipped' = Append(skipped, repoSlug)
                /\ i' = i + AfterBranchesError.step
                /\ pc' = AfterBranchesError.pc
                /\ UNCHANGED <<branches, j>>
           ELSE /\ out' = <<>>
                /\ branches' = f.branches
                /\ j' = 1
                /\ pc' = "PerBranch"
                /\ UNCHANGED <<i, skipped>>
  /\ UNCHANGED reports
  /\ UNCHANGED <<threshold, delete, repos, repoSlug, branch, now, isStale,
                 nonInteractDays, branchName, requests>>

\* the body of "if delete": the call of DeleteBranch is commented out and
\* "Blaaa" is printed in its place; no request is sent
DeleteStale(slug, name, del) ==
  IF del THEN [out |-> << <<"Blaaa">> >>, requests |-> <<>>]
  ELSE [out |-> <<>>, requests |-> <<>>]

\* one round of the loop over branches with the clock at t, or its end
NextBranch(t) ==
  /\ pc = "PerBranch"
  /\ IF j > Len(branches)
     THEN /\ i' = i + 1
          /\ pc' = "PerRepo"
          /\ out' = <<>>
          /\ branch' = NoBranch
          /\ now' = At(0, 0, 0)
          /\ isStale' = FALSE
          /\ nonInteractDays' = ZeroDuration
          /\ UNCHANGED <<j, requests>>
     ELSE LET c == CHOOSE r \in reports : /\ r.date = branches[j].target.date
                                           /\ r.threshold = threshold
                                           /\ r.now = t
              d == DeleteStale(repoSlug, branches[j].name, delete)
          IN /\ branch' = branches[j]
             /\ now' = t
             /\ isStale' = c.isStale
             /\ nonInteractDays' = c.age
             /\ out' = IF c.isStale
                       THEN << <<"Stale branch found", branches[j].name, repoSlug,
                                 c.days>> >> \o d.out
                       ELSE <<>>
             /\ requests' = IF c.isStale THEN requests \o d.requests ELSE requests
             /\ j' = j + 1
             /\ UNCHANGED <<i, pc>>
  /\ UNCHANGED reports
  /\ UNCHANGED <<threshold, delete, repos, repoSlug, branches, branchName, resp, err,
                 skipped>>

\* ---- DeleteBranch ----

\* the call: a protected name returns nil at once, any other name is sent
DeleteBranch(slug, name) ==
  /\ pc = "idle"
  /\ repoSlug' = slug
  /\ branchName' = name
  /\ IF IsProtected(name)
     THEN /\ out' = << <<"Branch is protected and cannot be deleted", name>> >>
          /\ pc' = "Returned"
          /\ UNCHANGED requests
     ELSE /\ out' = <<>>
          /\ requests' = Append(requests, Request("DELETE", BranchURL(slug, name)))
          /\ pc' = "Deleting"
  /\ UNCHANGED reports
  /\ UNCHANGED <<threshold, delete, repos, i, branches, j, branch, now, isStale,
                 nonInteractDays, resp, err, skipped>>

\* the DELETE is answered and DeleteBranch returns
DeleteResponse(r) ==
  /\ pc = "Deleting"
  /\ resp' = r
  /\ err' = DeleteOutcome(r)
  /\ out' = IF DeleteOutcome(r) = NilError
            THEN << <<"Branch deleted in repository", branchName, repoSlug>> >>
            ELSE <<>>
  /\ pc' = "Returned"
  /\ UNCHANGED reports
  /\ UNCHANGED <<threshold, delete, repos, i, repoSlug, branches, j, branch, now,
                 isStale, nonInteractDays, branchName, requests, skipped>>

\* ---- CheckIfStale, called on its own ----

CallCheckIfStale(b, th, t) ==
  /\ pc = "idle"
  /\ branch' = b
  /\ threshold' = th
  /\ now' = t
  /\ isStale' = CheckIfStale(b, th, t).isStale
  /\ nonInteractDays' = CheckIfStale(b, th, t).age
  /\ pc' = "Evaluated"
  /\ UNCHANGED reports
  /\ UNCHANGED <<delete, repos, i, repoSlug, branches, j, branchName, resp, err,
                 out, requests, skipped>>

Next ==
  \/ \E th \in RunThresholds, del \in BOOLEAN : ListStaleBranches(th, del)
  \/ \E r \in RepoResponses : ReposResponse(r)
  \/ NextRepo
  \/ \E r \in BranchResponses : BranchesResponse(r)
  \/ \E t \in RunClock : NextBranch(t)
  \/ \E slug \in Slugs, name \in DeleteNames : DeleteBranch(slug, name)
  \/ \E r \in DeleteResponses : DeleteResponse(r)
  \/ \E d \in DateStrings, th \in Thresholds, t \in Clock :
       CallCheckIfStale(Branch("feature-x", d), th, t)

Spec == Init /\ [][Next]_vars

\* every request is answered or fails, and the method running takes its next step
FairSpec == Spec /\ WF_vars(Next)

(***************************************************************************)
(* The claims.                                                             *)
(***************************************************************************)
Sent(method) == {k \in 1..Len(requests) : requests[k].method = method}

InListStaleBranches ==
  pc \in {"FetchingRepos", "PerRepo", "FetchingBranches", "PerBranch", "Done", "Failed"}

InDeleteBranch == pc \in {"Deleting", "Returned"}

\* a > b on Durations, exactly
DurGt(a, b) ==
  IF a.neg # b.neg THEN b.neg
  ELSE IF a.neg THEN MagCmp(a, b) = -1 ELSE MagCmp(a, b) = 1

\* the exact difference now - T for the branch last evaluated
Elapsed == TimeDiff(now, ParseRFC3339(branch.target.date).t)

\* C1: no DELETE request is ever sent for a branch named exactly "main",
\* "master" or "develop", whatever the delete flag and the responses, and
\* DeleteBranch called with such a name returns nil without sending anything.
C1_NoDeleteOfProtected ==
  /\ \A k \in Sent("DELETE") :
       requests[k].url[Len(requests[k].url)] \notin {"main", "master", "develop"}
  /\ (pc = "Returned" /\ branchName \in {"main", "master", "develop"})
       => (requests = <<>> /\ err = NilError)

C1_Witness ==
  /\ pc = "Returned"
  /\ branchName = "develop"
  /\ out = << <<"Branch is protected and cannot be deleted", "develop">> >>

\* C2: with the delete flag set, a branch that ListStaleBranches has just
\* evaluated stale and that is not protected has had its DELETE request sent.
C2_DeletesStaleBranches ==
  (pc = "PerBranch" /\ delete /\ isStale
      /\ branch.name \notin {"main", "master", "develop"})
    => \E k \in Sent("DELETE") : requests[k].url = BranchURL(repoSlug, branch.name)

\* C3: for a well-formed commit timestamp T, CheckIfStale returns stale = TRUE
\* exactly when now - T > threshold, and FALSE when they are equal.
C3_StaleIffOlderThanThreshold ==
  (pc = "Evaluated" /\ branch.target.date \in WellFormedDates)
    => (isStale <=> DurGt(Elapsed, threshold))

\* C4: when the branch list of a repository cannot be fetched, the error is
\* printed, only that repository is skipped, and the run goes on: at the end
\* the branch list of every repository of the fetched list has been requested,
\* and every repository left without an error had all its branches evaluated.
C4_FetchFailureIsolated ==
  /\ (pc = "PerRepo" /\ err # NilError)
       => /\ i \in 2..(Len(repos) + 1)
          /\ skipped # <<>>
          /\ skipped[Len(skipped)] = repos[i - 1].slug
          /\ out = << <<"Error fetching branches for repo", repos[i - 1].slug, err.kind>> >>
  /\ (pc = "PerRepo" /\ err = NilError /\ i > 1) => j = Len(branches) + 1
  /\ pc = "Done"
       => /\ i = Len(repos) + 1
          /\ \A k \in 1..Len(repos) :
               \E x \in Sent("GET") : requests[x].url = BranchesURL(repos[k].slug)

C4_Witness ==
  /\ pc = "PerBranch"
  /\ skipped = <<repos[1].slug>>
  /\ i = 2
  /\ isStale

\* C5: when the repository list cannot be fetched (transport failure or a
\* status other than 200), the error is printed and the run ends in Failed
\* with the one request sent: no branch list is fetched, nothing is deleted.
C5_RepoListFailureIsFatal ==
  /\ pc = "Failed"
       => /\ requests = <<Request("GET", ReposURL)>>
          /\ resp.err \/ resp.status # 200
          /\ Len(out) = 1 /\ out[1][1] = "Error fetching repositories"
  /\ (InListStaleBranches /\ pc # "FetchingRepos" /\ Len(requests) = 1
        /\ (resp.err \/ resp.status # 200))
       => pc = "Failed"

C5_Witness == pc = "Failed" /\ ~resp.err /\ resp.status = 401

\* C6: for a commit timestamp that cannot be parsed CheckIfStale returns
\* (FALSE, 0); ListStaleBranches prints nothing for that branch and stays in
\* its loop, at the next branch.
C6_MalformedDateIsNotStale ==
  (branch # NoBranch /\ branch.target.date \in {"2024-01-01 00:00:00", ""})
    => /\ pc = "Evaluated" => (~isStale /\ nonInteractDays = ZeroDuration)
       /\ pc = "PerBranch"
            => /\ ~isStale /\ nonInteractDays = ZeroDuration
               /\ out = <<>>
               /\ j \in 2..(Len(branches) + 1) /\ branches[j - 1] = branch
               /\ Sent("DELETE") = {}

C6_Witness ==
  /\ pc = "PerBranch"
  /\ branch.target.date = "2024-01-01 00:00:00"
  /\ j = 2 /\ Len(branches) = 2

\* C7 as stated: DeleteBranch returns nil only when a DELETE was sent and
\* answered 204.
C7_NilOnlyOn204 ==
  (pc = "Returned" /\ err = NilError)
    => (Sent("DELETE") # {} /\ ~resp.err /\ resp.status = 204)

\* C7, amended: DeleteBranch returns nil exactly when the name is protected
\* (and then nothing was sent) or its DELETE was sent and answered 204; any
\* other status and a transport failure return an error.
C7_NilOnlyOn204OrProtected ==
  pc = "Returned"
    => (err = NilError
          <=> \/ branchName \in {"main", "master", "develop"} /\ requests = <<>>
              \/ /\ requests = <<Request("DELETE", BranchURL(repoSlug, branchName))>>
                 /\ ~resp.err /\ resp.status = 204)

C7_Witness ==
  /\ pc = "Returned"
  /\ err = StatusError(200)
  /\ Sent("DELETE") # {}

\* C8: the guard of DeleteBranch stops exactly the names "main", "master"
\* and "develop", compared as they are; any other name ("Main", "main2", "")
\* goes on to the DELETE request.
C8_GuardExactNames ==
  InDeleteBranch
    => IF branchName \in {"main", "master", "develop"}
       THEN /\ pc = "Returned"
            /\ requests = <<>>
            /\ out = << <<"Branch is protected and cannot be deleted", branchName>> >>
       ELSE requests = <<Request("DELETE", BranchURL(repoSlug, branchName))>>

C8_Witness == pc = "Deleting" /\ branchName = "Main"

\* C9: for a branch ListStaleBranches finds stale, the age CheckIfStale
\* returned is the whole days of now - T, and the number of days printed for
\* the branch is that number.
C9_AgeIsElapsedDays ==
  (pc = "PerBranch" /\ isStale)
    => /\ nonInteractDays.h \div 24 = Elapsed.h \div 24
       /\ out[1][4] = Elapsed.h \div 24

\* C10: a run of ListStaleBranches ends in Done or Failed, and nothing is
\* retried: the repository list is requested once, first, and after it the
\* branch lists of the repositories reached so far, each once, in list order.
RequestedInOrder ==
  InListStaleBranches
    => LET n == IF pc \in {"FetchingRepos", "Failed"} THEN 0
                ELSE IF pc \in {"FetchingBranches", "PerBranch"} THEN i
                ELSE i - 1
       IN /\ n <= Len(repos)
          /\ requests = <<Request("GET", ReposURL)>>
                          \o [k \in 1..n |-> Request("GET", BranchesURL(repos[k].slug))]

C10_TerminatesWithoutRetry ==
  /\ []RequestedInOrder
  /\ (pc = "FetchingRepos") ~> (pc \in {"Done", "Failed"})

C10_Witness ==
  /\ pc = "Done"
  /\ Len(repos) = 2
  /\ Len(requests) = 3
  /\ skipped = <<repos[1].slug>>
====
